---- MODULE Spec2Model ----
(***************************************************************************)
(* GBM stock price predictor (src/stock_predictor.py).                     *)
(*                                                                         *)
(* Numbers.  A Python float is modelled as a fixed-point number: the       *)
(* integer x stands for the real x / F.  Sums, differences and products    *)
(* with an integer are exact; a product of two fixed-point numbers, a      *)
(* quotient, sqrt, exp and log are rounded down to a unit.  Prices fed to  *)
(* the program are whole numbers.  The simulated grid S is kept unrounded  *)
(* in units of 1/F (S0 * exp(..)), and the median and percentiles are kept *)
(* unrounded in units of 1/(PctDen * F), so relations between prices are   *)
(* decided exactly.  NaN is carried as a flag.                             *)
(***************************************************************************)
EXTENDS Integers, Sequences, FiniteSets, TLC

VARIABLES
    rng,            \* state of the process-wide np.random generator
    pc,             \* position of the predict_stock_daily run
    ticker,         \* predict_stock_daily: argument
    n_days,         \* predict_stock_daily: argument
    n_sim,          \* predict_stock_daily: argument
    data,           \* predict_stock_daily: Close column of the fetched history
    lastDate,       \* predict_stock_daily: data.index[-1], a day number
    fetched,        \* the history as the market-data collaborator returned it
    prices,         \* predict_stock_daily: local
    S0,             \* predict_stock_daily: local
    printed,        \* what the run printed: <<>> or the diagnostic
    estCalled,      \* estimate_gbm_parameters has been called
    estArg,         \* its argument at the last call
    params,         \* its last return value [nan, mu, sigma]
    simCalled,      \* simulate_gbm_daily has been called
    simArgs,        \* its arguments at the last call
    W,              \* simulate_gbm_daily: local W of the last call
    t,              \* simulate_gbm_daily: returned t of the last call
    S,              \* simulate_gbm_daily: returned S of the last call
    raised,         \* exception raised by the last call ("none" if it returned)
    band,           \* predict_stock_daily: [median, lower, upper]
    forecast_dates  \* predict_stock_daily: local

vars == <<rng, pc, ticker, n_days, n_sim, data, lastDate, fetched, prices, S0,
          printed, estCalled, estArg, params, simCalled, simArgs, W, t, S,
          raised, band, forecast_dates>>

----------------------------------------------------------------------------
(* Bounds of the model *)

MaxDays == 3
MaxSim == 3
MaxExtra == 2
MaxK == 3
MaxLen == 3

(* Program constants *)

TradingDays == 252
Window == 252
MinObs == 60

(* Fixed-point unit: the integer x stands for the float x / F *)
F == 10000

(* Number of states of the modelled generator *)
RngMod == 128

(* 2.5 = 100 / PctDen: the percentiles 2.5, 50, 97.5 are 1/40, 20/40, 39/40 *)
PctDen == 40

----------------------------------------------------------------------------
(* Fixed-point arithmetic *)

RECURSIVE ISqrtBetween(_, _, _)
ISqrtBetween(n, lo, hi) ==
    IF lo >= hi THEN lo
    ELSE LET mid == (lo + hi + 1) \div 2
         IN  IF mid * mid <= n THEN ISqrtBetween(n, mid, hi)
                               ELSE ISqrtBetween(n, lo, mid - 1)

(* floor(sqrt(n)) for 0 <= n < 2^31 *)
ISqrt(n) == ISqrtBetween(n, 0, IF n < 46340 THEN n ELSE 46340)

(* np.sqrt of a fixed-point x: sqrt(x/F)*F = sqrt(x*F) = 10*sqrt(x*F/100) *)
SqrtFix(x) == 10 * ISqrt(x * (F \div 100))

(* np.exp of a fixed-point x: 1 + y + y^2/2 + y^3/6 at y = x/F *)
ExpFix(x) ==
    LET sq == (x * x) \div (2 * F)
    IN  F + x + sq + (sq * x) \div (3 * F)

(* np.log(p / q) for whole p, q with p/q > 0:
   2*(u + u^3/3) at u = (p-q)/(p+q) *)
LnFix(p, q) ==
    LET u == (F * (p - q)) \div (p + q)
        u3 == (((u * u) \div F) * u) \div F
    IN  2 * u + (2 * u3) \div 3

----------------------------------------------------------------------------
(* estimate_gbm_parameters *)

(* prices[1:] / prices[:-1] is finite and positive at position i *)
RatioOk(ps, i) == ps[i] # 0 /\ ps[i + 1] * ps[i] > 0

(* log_returns = np.log(prices[1:] / prices[:-1]) *)
LogReturns(ps) ==
    [i \in 1..(IF Len(ps) > 0 THEN Len(ps) - 1 ELSE 0) |->
        IF RatioOk(ps, i) THEN LnFix(ps[i + 1], ps[i]) ELSE 0]

(* some log return is nan or +-inf, or there is none: np.std gives nan *)
ReturnsNaN(ps) ==
    \/ Len(ps) < 2
    \/ \E i \in 1..(Len(ps) - 1) : ~RatioOk(ps, i)

(* r[lo] + ... + r[hi], summed by halves *)
RECURSIVE SumRange(_, _, _)
SumRange(r, lo, hi) ==
    IF lo > hi THEN 0
    ELSE IF lo = hi THEN r[lo]
    ELSE LET mid == (lo + hi) \div 2
         IN  SumRange(r, lo, mid) + SumRange(r, mid + 1, hi)

(* np.mean *)
Mean(r) == SumRange(r, 1, Len(r)) \div Len(r)

(* np.std: population standard deviation (ddof = 0) *)
Std(r) ==
    LET m == Mean(r)
        dev2 == [i \in 1..Len(r) |-> (r[i] - m) * (r[i] - m)]
    IN  ISqrt(SumRange(dev2, 1, Len(r)) \div Len(r))

(* sigma ** 2 *)
Sq(x) == (x * x) \div F

(* 0.5 * sigma**2 *)
HalfSq(sigma) == Sq(sigma) \div 2

(* sigma = np.std(log_returns) * np.sqrt(252) *)
EstimateSigma(r) == (Std(r) * SqrtFix(TradingDays * F)) \div F

(* mutant: the Ito correction is dropped from the estimate *)
EstimateMuNoCorrection(r, sigma) == Mean(r) * TradingDays

(* mu = np.mean(log_returns) * 252 + 0.5 * sigma**2 *)
EstimateMu(r, sigma) == Mean(r) * TradingDays + HalfSq(sigma)

estimate_gbm_parameters(ps) ==
    IF ReturnsNaN(ps)
    THEN [nan |-> TRUE, mu |-> 0, sigma |-> 0]
    ELSE LET r == LogReturns(ps)
             sigma == EstimateSigma(r)
         IN  [nan |-> FALSE, mu |-> EstimateMu(r, sigma), sigma |-> sigma]

----------------------------------------------------------------------------
(* np.random: one generator shared by the whole process *)

(* one step of the generator *)
RngStep(x) == (x * 37 + 11) % RngMod

RECURSIVE RngAfter(_, _)
RngAfter(x, k) == IF k = 0 THEN x ELSE RngStep(RngAfter(x, k - 1))

(* the standard normal variate the generator gives in state x, as a whole
   number of standard deviations *)
ZOf(x) ==
    LET h == (x \div (RngMod \div 16)) % 16
    IN  IF h = 0 THEN -2
        ELSE IF h <= 4 THEN -1
        ELSE IF h <= 10 THEN 0
        ELSE IF h <= 14 THEN 1
        ELSE 2

(* np.random.normal(0, scale, (rows, cols)): the array is filled row by row
   from the generator's stream *)
RandomNormal(x, scale, rows, cols) ==
    [i \in 1..rows |-> [j \in 1..cols |->
        scale * ZOf(RngAfter(x, (i - 1) * cols + j))]]

----------------------------------------------------------------------------
(* simulate_gbm_daily *)

(* dt = 1/252 *)
Dt == F \div TradingDays

RECURSIVE ColSum(_, _, _)
ColSum(m, i, j) == IF i = 0 THEN 0 ELSE m[i][j] + ColSum(m, i - 1, j)

(* np.cumsum(dW, axis=0) *)
CumSum(m) == [i \in 1..Len(m) |-> [j \in 1..Len(m[i]) |-> ColSum(m, i, j)]]

(* t = np.arange(n_days) *)
ARange(n) == [i \in 1..n |-> i - 1]

(* (mu - 0.5*sigma**2) *)
DriftCoef(mu, sigma) == mu - HalfSq(sigma)

(* mutant: W is not scaled by sigma *)
ExponentNoSigma(mu, sigma, ti, w) ==
    (DriftCoef(mu, sigma) * ti) \div TradingDays + w

(* (mu - 0.5*sigma**2) * t / 252 + sigma * W  at one cell *)
Exponent(mu, sigma, ti, w) ==
    (DriftCoef(mu, sigma) * ti) \div TradingDays + (sigma * w) \div F

(* mutant: S0 + exp(..) in place of S0 * exp(..) *)
PriceGridPlus(s0, mu, sigma, tt, ww) ==
    [i \in 1..Len(ww) |-> [j \in 1..Len(ww[i]) |->
        s0 * F + ExpFix(Exponent(mu, sigma, tt[i], ww[i][j]))]]

(* S = S0 * np.exp((mu - 0.5*sigma**2)*t[:, None]/252 + sigma*W) *)
PriceGrid(s0, mu, sigma, tt, ww) ==
    [i \in 1..Len(ww) |-> [j \in 1..Len(ww[i]) |->
        s0 * ExpFix(Exponent(mu, sigma, tt[i], ww[i][j]))]]

(* mutant: a row for day 0 is generated too *)
simulate_with_day0(s0, mu, sigma, nd, ns, x) ==
    IF nd < 0 \/ ns < 0
    THEN [raised |-> "ValueError", W |-> <<>>, t |-> <<>>, S |-> <<>>, rng |-> x]
    ELSE LET dW == RandomNormal(x, SqrtFix(Dt), nd + 1, ns)
             ww == CumSum(dW)
             tt == ARange(nd + 1)
         IN  [raised |-> "none", W |-> ww, t |-> tt,
              S |-> PriceGrid(s0, mu, sigma, tt, ww),
              rng |-> RngAfter(x, (nd + 1) * ns)]

(* the whole call, from generator state x: np.random.normal raises ValueError
   on a negative dimension; otherwise the call returns S, t *)
simulate_gbm_daily(s0, mu, sigma, nd, ns, x) ==
    IF nd < 0 \/ ns < 0
    THEN [raised |-> "ValueError", W |-> <<>>, t |-> <<>>, S |-> <<>>, rng |-> x]
    ELSE LET dW == RandomNormal(x, SqrtFix(Dt), nd, ns)
             ww == CumSum(dW)
             tt == ARange(nd)
         IN  [raised |-> "none", W |-> ww, t |-> tt,
              S |-> PriceGrid(s0, mu, sigma, tt, ww),
              rng |-> RngAfter(x, nd * ns)]

----------------------------------------------------------------------------
(* np.median, np.percentile along axis 1.  Values are in units of 1/PctDen
   of the row's unit. *)

RECURSIVE Insert(_, _)
Insert(x, s) ==
    IF s = <<>> THEN <<x>>
    ELSE IF x <= Head(s) THEN <<x>> \o s
    ELSE <<Head(s)>> \o Insert(x, Tail(s))

RECURSIVE Sort(_)
Sort(s) == IF s = <<>> THEN <<>> ELSE Insert(Head(s), Sort(Tail(s)))

(* np.median of a non-empty row: the mean of the middle order statistics *)
Median(row) ==
    LET a == Sort(row)
        n == Len(a)
    IN  (PctDen \div 2) * (a[(n + 1) \div 2] + a[(n + 2) \div 2])

(* np.percentile(row, 100*qn/PctDen) of a non-empty row, linear interpolation
   between the order statistics around the virtual index qn/PctDen * (n-1) *)
Percentile(row, qn) ==
    LET a == Sort(row)
        n == Len(a)
        pos == qn * (n - 1)
        lo == pos \div PctDen
        fr == pos % PctDen
    IN  IF fr = 0 THEN PctDen * a[lo + 1]
        ELSE PctDen * a[lo + 1] + fr * (a[lo + 2] - a[lo + 1])

(* mutant: the two percentiles are exchanged *)
ReduceSwapped(grid) ==
    [median |-> [i \in 1..Len(grid) |-> Median(grid[i])],
     lower  |-> [i \in 1..Len(grid) |-> Percentile(grid[i], PctDen - 1)],
     upper  |-> [i \in 1..Len(grid) |-> Percentile(grid[i], 1)]]

(* median = np.median(S, axis=1); lower = np.percentile(S, 2.5, axis=1);
   upper = np.percentile(S, 97.5, axis=1) *)
Reduce(grid) ==
    [median |-> [i \in 1..Len(grid) |-> Median(grid[i])],
     lower  |-> [i \in 1..Len(grid) |-> Percentile(grid[i], 1)],
     upper  |-> [i \in 1..Len(grid) |-> Percentile(grid[i], PctDen - 1)]]

----------------------------------------------------------------------------
(* pd.bdate_range: a date is a day number, d % 7 = 0 is a Monday *)

IsBDay(d) == d % 7 < 5

RECURSIVE NextBDay(_)
NextBDay(d) == IF IsBDay(d) THEN d ELSE NextBDay(d + 1)

RECURSIVE BDateRange(_, _)
BDateRange(start, periods) ==
    IF periods <= 0 THEN <<>>
    ELSE <<NextBDay(start)>> \o BDateRange(NextBDay(start) + 1, periods - 1)

----------------------------------------------------------------------------
(* predict_stock_daily *)

(* mutant: only the empty history is refused *)
InsufficientEmptyOnly(d) == Len(d) = 0

(* if data.empty or len(data) < 60 *)
Insufficient(d) == Len(d) = 0 \/ Len(d) < MinObs

(* mutant: data.iloc[:252], the oldest rows *)
FirstWindow(d) == IF Len(d) > Window THEN SubSeq(d, 1, Window) ELSE d

(* if len(data) > 252: data = data.iloc[-252:] *)
LastWindow(d) ==
    IF Len(d) > Window THEN SubSeq(d, Len(d) - Window + 1, Len(d)) ELSE d

(* S0 = float(prices[-1]) *)
LastPrice(ps) == ps[Len(ps)]

----------------------------------------------------------------------------
(* Inputs *)

Tickers == {"AAPL", "MSFT"}

(* Close prices the market-data collaborator may return: len rows, the
   price moving in a 7-day pattern of the given kind (kind 0: flat) *)
Kinds == 0..2
History(len, kind) == [i \in 1..len |-> 100 + ((i * kind) % 7)]
HistoryLens ==
    {0, 1, MinObs - 1, MinObs, MinObs + 1, Window - 1}
        \cup (Window..(Window + MaxExtra))

(* day numbers of the last row: a Monday, a Friday *)
LastDates == {0, 4}

(* generator states a run may start from *)
RunSeeds == {0, 5, 77}

(* arguments of direct calls to the two core functions *)
CoreS0 == {-100, 0, 1, 100}
CoreMu == {0, 800}
CoreSigma == {-2000, 0, 2000}
CoreDims(max) == (-1)..max
CorePrices == {-1, 0, 100, 102}
RECURSIVE SeqsUpTo(_, _)
SeqsUpTo(vals, n) ==
    IF n = 0 THEN {<<>>}
    ELSE LET shorter == SeqsUpTo(vals, n - 1)
         IN  shorter \cup {Append(q, v) : q \in shorter, v \in vals}

NoParams == [nan |-> TRUE, mu |-> 0, sigma |-> 0]
NoArgs == [S0 |-> 0, mu |-> 0, sigma |-> 0, n_days |-> 0, n_sim |-> 0]
NoBand == [median |-> <<>>, lower |-> <<>>, upper |-> <<>>]

----------------------------------------------------------------------------
(* State machine *)

InitRest ==
    /\ pc = "start"
    /\ ticker = ""
    /\ n_days = 0
    /\ n_sim = 0
    /\ data = <<>>
    /\ lastDate = 0
    /\ fetched = <<>>
    /\ prices = <<>>
    /\ S0 = 0
    /\ printed = <<>>
    /\ estCalled = FALSE
    /\ estArg = <<>>
    /\ params = NoParams
    /\ simCalled = FALSE
    /\ simArgs = NoArgs
    /\ W = <<>>
    /\ t = <<>>
    /\ S = <<>>
    /\ raised = "none"
    /\ band = NoBand
    /\ forecast_dates = <<>>

(* a run of the program: the generator is seeded from system entropy *)
Init == rng \in RunSeeds /\ InitRest

(* the module imported as a library *)
InitCore == rng \in 0..(RngMod - 1) /\ InitRest

estFrame == <<estCalled, estArg, params>>
simFrame == <<simCalled, simArgs, W, t, S>>
runInputs == <<ticker, n_days, n_sim, lastDate, fetched>>

(* lines 27-30: predict_stock_daily(ticker, n_days, n_sim) is entered and the
   history is fetched.  n_days comes from int(input) when it is all digits,
   so it may be 0. *)
Fetch ==
    /\ pc = "start"
    /\ \E tk \in Tickers, nd \in 0..MaxDays, ns \in 1..MaxSim,
          len \in HistoryLens, kind \in Kinds, ld \in LastDates :
          /\ ticker' = tk
          /\ n_days' = nd
          /\ n_sim' = ns
          /\ data' = History(len, kind)
          /\ fetched' = History(len, kind)
          /\ lastDate' = ld
    /\ pc' = "check"
    /\ UNCHANGED <<rng, prices, S0, printed, estFrame, simFrame, raised, band,
                   forecast_dates>>

(* lines 32-35 *)
Check ==
    /\ pc = "check"
    /\ IF Insufficient(data)
       THEN /\ printed' = Append(printed,
                    [kind |-> "insufficient", ticker |-> ticker,
                     available |-> Len(data), need |-> MinObs])
            /\ pc' = "done"
       ELSE /\ printed' = printed
            /\ pc' = "window"
    /\ UNCHANGED <<rng, runInputs, data, prices, S0, estFrame, simFrame, raised,
                   band, forecast_dates>>

(* lines 38-42 *)
TakeWindow ==
    /\ pc = "window"
    /\ data' = LastWindow(data)
    /\ prices' = data'
    /\ S0' = LastPrice(prices')
    /\ pc' = "estimate"
    /\ UNCHANGED <<rng, runInputs, printed, estFrame, simFrame, raised, band,
                   forecast_dates>>

(* line 43 *)
Estimate ==
    /\ pc = "estimate"
    /\ estCalled' = TRUE
    /\ estArg' = prices
    /\ params' = estimate_gbm_parameters(prices)
    /\ pc' = "simulate"
    /\ UNCHANGED <<rng, runInputs, data, prices, S0, printed, simFrame, raised,
                   band, forecast_dates>>

(* line 49 *)
Simulate ==
    /\ pc = "simulate"
    /\ LET r == simulate_gbm_daily(S0, params.mu, params.sigma, n_days, n_sim, rng)
       IN  /\ simCalled' = TRUE
           /\ simArgs' = [S0 |-> S0, mu |-> params.mu, sigma |-> params.sigma,
                          n_days |-> n_days, n_sim |-> n_sim]
           /\ W' = r.W
           /\ t' = r.t
           /\ S' = r.S
           /\ rng' = r.rng
           /\ raised' = r.raised
    /\ pc' = "reduce"
    /\ UNCHANGED <<runInputs, data, prices, S0, printed, estFrame, band,
                   forecast_dates>>

(* lines 52-58 *)
ReduceStep ==
    /\ pc = "reduce"
    /\ band' = Reduce(S)
    /\ forecast_dates' = BDateRange(lastDate + 1, n_days)
    /\ pc' = "report"
    /\ UNCHANGED <<rng, runInputs, data, prices, S0, printed, estFrame, simFrame,
                   raised>>

(* lines 61-99: the plot, then the printed report.  median[-1] at line 94
   raises IndexError when the forecast is empty. *)
Report ==
    /\ pc = "report"
    /\ IF Len(band.median) = 0
       THEN /\ raised' = "IndexError"
            /\ printed' = Append(printed,
                    [kind |-> "header", ticker |-> ticker, S0 |-> S0,
                     used |-> Len(prices), mu |-> params.mu,
                     sigma |-> params.sigma])
       ELSE /\ raised' = raised
            /\ printed' = Append(printed,
                    [kind |-> "results", ticker |-> ticker, S0 |-> S0,
                     used |-> Len(prices), mu |-> params.mu,
                     sigma |-> params.sigma,
                     median |-> band.median[Len(band.median)],
                     lower |-> band.lower[Len(band.lower)],
                     upper |-> band.upper[Len(band.upper)]])
    /\ pc' = "done"
    /\ UNCHANGED <<rng, runInputs, data, prices, S0, estFrame, simFrame, band,
                   forecast_dates>>

Next == Fetch \/ Check \/ TakeWindow \/ Estimate \/ Simulate \/ ReduceStep \/ Report

Spec == Init /\ [][Next]_vars

(* Direct calls of the two core functions, from any generator state: one
   call with any arguments; a simulate call may then be repeated with the
   same arguments. *)
Fresh == ~estCalled /\ ~simCalled

CallEstimate ==
    /\ Fresh
    /\ \E ps \in SeqsUpTo(CorePrices, MaxLen) :
          /\ estArg' = ps
          /\ params' = estimate_gbm_parameters(ps)
    /\ estCalled' = TRUE
    /\ raised' = "none"
    /\ UNCHANGED <<rng, pc, runInputs, data, prices, S0, printed, simFrame, band,
                   forecast_dates>>

SimulateWith(a) ==
    LET r == simulate_gbm_daily(a.S0, a.mu, a.sigma, a.n_days, a.n_sim, rng)
    IN  /\ simCalled' = TRUE
        /\ simArgs' = a
        /\ W' = r.W
        /\ t' = r.t
        /\ S' = r.S
        /\ rng' = r.rng
        /\ raised' = r.raised

CallSimulate ==
    /\ Fresh
    /\ \E s0 \in CoreS0, mu \in CoreMu, sigma \in CoreSigma,
          nd \in CoreDims(MaxDays), ns \in CoreDims(MaxSim) :
          SimulateWith([S0 |-> s0, mu |-> mu, sigma |-> sigma,
                        n_days |-> nd, n_sim |-> ns])
    /\ UNCHANGED <<pc, runInputs, data, prices, S0, printed, estFrame, band,
                   forecast_dates>>

RepeatSimulate ==
    /\ simCalled
    /\ SimulateWith(simArgs)
    /\ UNCHANGED <<pc, runInputs, data, prices, S0, printed, estFrame, band,
                   forecast_dates>>

NextCore == CallEstimate \/ CallSimulate \/ RepeatSimulate

SpecCore == InitCore /\ [][NextCore]_vars

----------------------------------------------------------------------------
(* Properties *)

(* the spec's input constraints of simulate *)
ValidArgs(a) == a.S0 > 0 /\ a.sigma >= 0 /\ a.n_days >= 1 /\ a.n_sim >= 1

(* simulate_gbm_daily has returned a grid for valid arguments *)
Simulated == simCalled /\ raised # "ValueError" /\ ValidArgs(simArgs)

(* the spec's input constraint of estimateParameters, violated *)
Malformed(ps) == Len(ps) < 2 \/ \E i \in 1..Len(ps) : ps[i] <= 0

Scaled(b, k) ==
    [median |-> [i \in 1..Len(b.median) |-> k * b.median[i]],
     lower  |-> [i \in 1..Len(b.lower) |-> k * b.lower[i]],
     upper  |-> [i \in 1..Len(b.upper) |-> k * b.upper[i]]]

(* C1: the output row at 0-based index i is the price at day t = i+1: its
   drift term is (mu - 0.5 sigma^2)(i+1)/252, with the same i+1 increments
   summed into W.  (Rows are numbered from 1 here, so row i is day i.)  In
   particular S0 = 100, mu = 0.08, sigma = 0, horizonDays = 2 gives the median
   [100 exp(0.08/252), 100 exp(0.16/252)]. *)
C1_RowIsDayIPlus1 ==
    Simulated =>
        /\ \A i \in 1..simArgs.n_days : \A j \in 1..simArgs.n_sim :
              S[i][j] = simArgs.S0 *
                  ExpFix(Exponent(simArgs.mu, simArgs.sigma, i, W[i][j]))
        /\ (simArgs.S0 = 100 /\ simArgs.mu = 800 /\ simArgs.sigma = 0
                /\ simArgs.n_days = 2) =>
              Reduce(S).median =
                  <<PctDen * 100 * ExpFix((800 * 1) \div TradingDays),
                    PctDen * 100 * ExpFix((800 * 2) \div TradingDays)>>

(* C2: for valid input and any draws, lowerBound[i] <= median[i] <=
   upperBound[i] at every forecast day index i. *)
C2_BandOrdered ==
    Simulated =>
        LET b == Reduce(S)
        IN  \A i \in 1..simArgs.n_days :
                b.lower[i] <= b.median[i] /\ b.median[i] <= b.upper[i]

C2_Witness ==
    /\ Simulated
    /\ simArgs.n_sim >= 3
    /\ \E i \in 1..simArgs.n_days :
          Reduce(S).lower[i] < Reduce(S).median[i]
              /\ Reduce(S).median[i] < Reduce(S).upper[i]

(* C5: if sigma = 0 then all simulated paths coincide and median[i] =
   lowerBound[i] = upperBound[i] at every forecast day index i. *)
C5_ZeroVolatilityCollapses ==
    (Simulated /\ simArgs.sigma = 0) =>
        LET b == Reduce(S)
        IN  \A i \in 1..simArgs.n_days :
                /\ \A j \in 1..simArgs.n_sim : S[i][j] = S[i][1]
                /\ b.median[i] = b.lower[i]
                /\ b.median[i] = b.upper[i]
                /\ b.median[i] = PctDen * S[i][1]

C5_Witness ==
    /\ Simulated
    /\ simArgs.sigma = 0
    /\ simArgs.mu # 0
    /\ simArgs.n_days >= 2
    /\ \E i \in 1..simArgs.n_days : \E j \in 1..simArgs.n_sim : W[i][j] # W[i][1]
    /\ Reduce(S).median[2] = Reduce(S).upper[2]

(* C7: for fixed mu, sigma, horizonDays, sampleCount and identical random
   draws, replacing S0 by k S0 for a positive k multiplies every value of
   median, lowerBound and upperBound by k. *)
C7_ScaleInvariant ==
    Simulated =>
        \A k \in 1..MaxK :
            Reduce(PriceGrid(k * simArgs.S0, simArgs.mu, simArgs.sigma, t, W))
                = Scaled(Reduce(S), k)

C7_Witness ==
    /\ Simulated
    /\ simArgs.sigma > 0
    /\ simArgs.n_sim >= 2
    /\ \E i \in 1..simArgs.n_days : Reduce(S).lower[i] < Reduce(S).upper[i]
    /\ Reduce(PriceGrid(MaxK * simArgs.S0, simArgs.mu, simArgs.sigma, t, W))
           = Scaled(Reduce(S), MaxK)

(* C3: the core operations reject malformed input with InvalidInputError
   before any computation: estimate_gbm_parameters when the series has fewer
   than 2 elements or a non-positive price, simulate_gbm_daily when S0 <= 0,
   sigma < 0, horizonDays <= 0 or sampleCount <= 0; no parameters or grid are
   produced from such input. *)
C3_RejectsMalformed ==
    /\ (estCalled /\ Malformed(estArg)) =>
          raised = "InvalidInputError" /\ params = NoParams
    /\ (simCalled /\ ~ValidArgs(simArgs)) =>
          raised = "InvalidInputError" /\ S = <<>>

(* C4: when the collaborator returns an empty history or fewer than 60
   observations, the run ends with a diagnostic naming the ticker and the
   observed and required counts; the estimator and the simulator are not
   invoked and no parameters are substituted.  The estimator is only ever
   invoked on a history of at least 60 observations. *)
C4_InsufficientHistoryAborts ==
    /\ estCalled => Len(fetched) >= MinObs
    /\ simCalled => Len(fetched) >= MinObs
    /\ (pc \notin {"start", "check"} /\ Len(fetched) < MinObs) =>
          /\ pc = "done"
          /\ ~estCalled /\ ~simCalled
          /\ params = NoParams /\ band = NoBand /\ S = <<>>
          /\ Len(printed) = 1
          /\ printed[1].kind = "insufficient"
          /\ printed[1].ticker = ticker
          /\ printed[1].available = Len(fetched)
          /\ printed[1].need = MinObs

C4_Witness ==
    /\ pc = "done"
    /\ Len(fetched) = MinObs - 1
    /\ Len(printed) = 1
    /\ printed[1].kind = "insufficient"
    /\ ~estCalled

(* C6: two simulate calls with identical arguments and the same seed give
   identical output, whatever was drawn from the generator before or between
   them.  (A behaviour seeds the generator once, in its initial state.) *)
C6_SameSeedSameOutput ==
    [][(simCalled /\ simCalled' /\ simArgs' = simArgs) => S' = S]_vars

(* C8: for horizonDays >= 1 and sampleCount >= 1 the grid has shape
   horizonDays x sampleCount and median, lowerBound, upperBound each have
   length horizonDays, one entry per forecast business day; horizonDays = 1
   with sampleCount = 1 gives a single-element band and no failure. *)
C8_ShapeAndLengths ==
    /\ Simulated =>
          /\ Len(S) = simArgs.n_days
          /\ \A i \in 1..Len(S) : Len(S[i]) = simArgs.n_sim
          /\ Len(Reduce(S).median) = simArgs.n_days
          /\ Len(Reduce(S).lower) = simArgs.n_days
          /\ Len(Reduce(S).upper) = simArgs.n_days
    /\ (pc \in {"report", "done"} /\ simCalled /\ n_days >= 1) =>
          /\ simArgs.n_days = n_days /\ simArgs.n_sim = n_sim
          /\ Len(band.median) = n_days
          /\ Len(band.lower) = n_days
          /\ Len(band.upper) = n_days
          /\ Len(forecast_dates) = n_days
          /\ \A i \in 1..n_days : IsBDay(forecast_dates[i])
          /\ raised = "none"

C8_Witness ==
    /\ pc = "done"
    /\ simCalled
    /\ n_days = 1
    /\ n_sim = 1
    /\ Len(band.median) = 1 /\ Len(band.lower) = 1 /\ Len(band.upper) = 1
    /\ Len(forecast_dates) = 1
    /\ Len(printed) = 1 /\ printed[1].kind = "results"

(* C9: the estimator adds 0.5 sigma^2 once and the simulator subtracts it
   once: fed the estimator's (mu, sigma), the annual log-space drift
   coefficient (mu - 0.5 sigma^2) of the exponent equals mean(r) * 252. *)
C9_ItoCorrectionPaired ==
    /\ (estCalled /\ ~params.nan) =>
          DriftCoef(params.mu, params.sigma)
              = Mean(LogReturns(estArg)) * TradingDays
    /\ (pc \in {"reduce", "report", "done"} /\ simCalled) =>
          LET annualMean == Mean(LogReturns(prices)) * TradingDays
          IN  /\ simArgs.mu = params.mu
              /\ simArgs.sigma = params.sigma
              /\ \A i \in 1..Len(S) : \A j \in 1..Len(S[i]) :
                    S[i][j] = S0 * ExpFix(
                        (annualMean * t[i]) \div TradingDays
                        + (params.sigma * W[i][j]) \div F)

C9_Witness ==
    /\ pc = "done"
    /\ simCalled
    /\ ~params.nan
    /\ HalfSq(params.sigma) >= TradingDays
    /\ Mean(LogReturns(prices)) # 0
    /\ Len(S) >= 2
    /\ params.mu # DriftCoef(params.mu, params.sigma)

(* C10: the series handed to the estimator is the most recent
   min(len(history), 252) rows of the fetched history, in order, hence between
   60 and 252 observations; the simulator's S0 is the last price of that
   window; a history of 252 or fewer rows is used unchanged. *)
C10_RecentWindow ==
    LET n == Len(fetched)
        m == IF n < Window THEN n ELSE Window
    IN  /\ estCalled =>
              /\ Len(estArg) = m
              /\ m >= MinObs /\ m <= Window
              /\ \A i \in 1..m : estArg[i] = fetched[n - m + i]
              /\ n <= Window => estArg = fetched
        /\ simCalled =>
              /\ simArgs.S0 = fetched[n]
              /\ simArgs.S0 = estArg[Len(estArg)]

C10_Witness ==
    /\ simCalled
    /\ Len(fetched) = Window + 1
    /\ Len(estArg) = Window
    /\ estArg[1] # fetched[1]
    /\ estArg[Window] # fetched[Window]
    /\ simArgs.S0 = fetched[Window + 1]

====
